---- MODULE Spec2Model ----
(***************************************************************************)
(* Checkout / order-confirmation service (src/index.js).                   *)
(*                                                                         *)
(* State: the payment gateway's checkout sessions, the cart table, the     *)
(* orders table (the ledger) and, for every in-flight POST /confirm-order  *)
(* request, the handler's position between its awaits and its locals.      *)
(* Every await of the handler is one step; the synchronous code between    *)
(* two awaits runs atomically (single-threaded event loop), the external   *)
(* systems are shared by all requests.                                     *)
(***************************************************************************)
EXTENDS Integers, Sequences, FiniteSets, TLC

\* ---------------------------------------------------------------- bounds
NumReq == 2          \* confirm requests that may be in flight
MaxSessions == 2     \* checkout sessions the gateway may hold
MaxCartLines == 2    \* rows the cart table may hold

\* ------------------------------------------------------- program constants
USD_MXN_RATE == 17   \* Number(process.env.USD_MXN_RATE || '17.0')

\* The rates the process may have been started with.
RateChoices == {USD_MXN_RATE, 20, 8}

\* A variant: a third currency is allowed.
ALLOWED_CURRENCIES_withEur == {"mxn", "usd", "eur"}

\* --- line 51
ALLOWED_CURRENCIES == {"mxn", "usd"}

\* A JS value that is undefined / null.
NULL == "NULL"

\* Truthiness of a string-or-missing value (undefined, null and "" are falsy).
Truthy(x) == x # NULL /\ x # ""

Req == 1..NumReq

\* ------------------------------------------------------------- strings
\* Error messages are strings; Chars gives the characters of the messages
\* the datastore client can hand back, so that toLowerCase() and includes()
\* are computed on the text as the code computes them.
M_DUP_SESSION == "duplicate key value violates unique constraint \"orders_stripe_session_id_key\""
M_DUP_PKEY == "duplicate key value violates unique constraint \"orders_pkey\""
M_FETCH == "TypeError: fetch failed"

Chars(m) ==
  CASE m = M_DUP_SESSION ->
         <<"d", "u", "p", "l", "i", "c", "a", "t", "e", " ", "k", "e", "y", " ",
           "v", "a", "l", "u", "e", " ", "v", "i", "o", "l", "a", "t", "e", "s", " ",
           "u", "n", "i", "q", "u", "e", " ", "c", "o", "n", "s", "t", "r", "a", "i",
           "n", "t", " ", "\"", "o", "r", "d", "e", "r", "s", "_", "s", "t", "r", "i",
           "p", "e", "_", "s", "e", "s", "s", "i", "o", "n", "_", "i", "d", "_", "k",
           "e", "y", "\"">>
    [] m = M_DUP_PKEY ->
         <<"d", "u", "p", "l", "i", "c", "a", "t", "e", " ", "k", "e", "y", " ",
           "v", "a", "l", "u", "e", " ", "v", "i", "o", "l", "a", "t", "e", "s", " ",
           "u", "n", "i", "q", "u", "e", " ", "c", "o", "n", "s", "t", "r", "a", "i",
           "n", "t", " ", "\"", "o", "r", "d", "e", "r", "s", "_", "p", "k", "e", "y",
           "\"">>
    [] m = M_FETCH ->
         <<"T", "y", "p", "e", "E", "r", "r", "o", "r", ":", " ", "f", "e", "t",
           "c", "h", " ", "f", "a", "i", "l", "e", "d">>
    [] OTHER -> <<>>

LowerChar(c) ==
  CASE c = "T" -> "t"
    [] c = "E" -> "e"
    [] OTHER -> c

\* String.prototype.toLowerCase, on the characters.
ToLowerCase(cs) == [i \in 1..Len(cs) |-> LowerChar(cs[i])]

\* String.prototype.includes, on the characters.
Includes(cs, pat) ==
  \E i \in 1..(Len(cs) - Len(pat) + 1) : SubSeq(cs, i, i + Len(pat) - 1) = pat

P_DUPLICATE_KEY == <<"d", "u", "p", "l", "i", "c", "a", "t", "e", " ", "k", "e", "y">>
P_UNIQ == <<"u", "n", "i", "q">>
P_UNIQUE == <<"u", "n", "i", "q", "u", "e">>

\* ---------------------------------------------------------------- state
VARIABLES
  sessions,   \* gateway: sequence of checkout sessions, session i has id i
  cart,       \* cart table: sequence of rows
  orders,     \* orders table: set of rows
  req,        \* per confirm request: position, locals, response, history
  rate,       \* the process's USD_MXN_RATE (read once from the environment)
  watch,      \* whether the create-checkout-session calls are being recorded
  checkout    \* the last create-checkout-session call, as recorded

vars == <<sessions, cart, orders, req, rate, watch, checkout>>

\* ------------------------------------------------------------ cart table
\* The rows the cart CRUD (an external collaborator) may add: each row
\* belongs to a user (user_id) or to an anonymous session (session_id) and
\* carries the joined product (price = base price in MXN).
CartLineChoices ==
  { [user_id |-> "o1", session_id |-> NULL, product |-> [id |-> 1, price |-> 50], quantity |-> 2],
    [user_id |-> "o1", session_id |-> NULL, product |-> [id |-> 2, price |-> 30], quantity |-> 1],
    [user_id |-> NULL, session_id |-> "o2", product |-> [id |-> 3, price |-> 200], quantity |-> 1] }

\* Rows of a wider catalogue: whole-peso prices whose cents round up, down
\* and at the half, a price of zero, a negative price, and a row whose
\* product is missing (it joins as product id 0, price 0).
AnyPriceLineChoices ==
  { [user_id |-> "o1", session_id |-> NULL, product |-> [id |-> 4, price |-> 100], quantity |-> 1],
    [user_id |-> "o1", session_id |-> NULL, product |-> [id |-> 5, price |-> 0], quantity |-> 1],
    [user_id |-> NULL, session_id |-> "o2", product |-> [id |-> 4, price |-> 100], quantity |-> 1],
    [user_id |-> NULL, session_id |-> "o2", product |-> [id |-> 6, price |-> 10], quantity |-> 3],
    [user_id |-> NULL, session_id |-> "o2", product |-> [id |-> 7, price |-> 1], quantity |-> 1],
    [user_id |-> NULL, session_id |-> "o2", product |-> [id |-> 8, price |-> -5], quantity |-> 1],
    [user_id |-> NULL, session_id |-> "o2", product |-> [id |-> 0, price |-> 0], quantity |-> 1] }

\* base.eq('user_id', ownerId) when ownerType === 'user', else
\* base.eq('session_id', ownerId).
OwnsLine(ownerType, ownerId, line) ==
  IF ownerType = "user" THEN line.user_id = ownerId ELSE line.session_id = ownerId

CartOf(ownerType, ownerId) ==
  LET Mine(line) == OwnsLine(ownerType, ownerId, line) IN SelectSeq(cart, Mine)

\* A variant: the delete always filters on user_id.
CartWithout_byUserId(ownerType, ownerId) ==
  LET Others(line) == line.user_id # ownerId IN SelectSeq(cart, Others)

\* --- lines 240-242: the delete by owner; the rows that stay
CartWithout(ownerType, ownerId) ==
  LET Others(line) == ~OwnsLine(ownerType, ownerId, line) IN SelectSeq(cart, Others)

\* ------------------------------------------------------------ confirm-order
\* Responses of POST /confirm-order: HTTP code, the kind of body, the error
\* text, orderId (0 when the body carries none) and the payment status
\* attached to the not-paid error ("" when absent).
Response(code, kind, error, orderId, status) ==
  [code |-> code, kind |-> kind, error |-> error, orderId |-> orderId, status |-> status]

NoResponse == Response(0, "none", "", 0, "")

E_SESSION_ID_REQUIRED == Response(400, "error", "session_id requerido", 0, "")
E_INTERNAL == Response(500, "error", "internal", 0, "")
E_MISSING_OWNER == Response(400, "error", "Faltan metadatos de owner en la sesion", 0, "")

ENotPaid(status) == Response(400, "error", "La sesion no esta pagada", 0, status)

EMessage(msg) == Response(500, "error", msg, 0, "")

\* res.json({ ok: true, alreadyProcessed: true, orderId: existing.data.id })
AlreadyProcessed(orderId) == Response(200, "alreadyProcessed", "", orderId, "")

\* res.json({ ok: true, alreadyProcessed: true })
AlreadyProcessedRace == Response(200, "alreadyProcessed", "", 0, "")

\* res.json({ ok: true, orderCreated: true, orderId: orderData.id })
OrderCreated(orderId) == Response(200, "orderCreated", "", orderId, "")

NoSession == [id |-> 0, payment_status |-> NULL, currency |-> NULL,
              metadata |-> [ownerType |-> NULL, ownerId |-> NULL, currency |-> NULL]]

\* What the handler can be sent: session_id (0 = missing; an id the gateway
\* has not given out is one it rejects) and body fields the handler never
\* asked for.
NoExtras == [ownerType |-> NULL, ownerId |-> NULL, currency |-> NULL]

\* The extra body fields request r sends: request 1 sends none, the others
\* name another owner and currency than the one they name next to.
ExtrasOf(r) ==
  IF r = 1 THEN NoExtras
  ELSE IF r % 2 = 0 THEN [ownerType |-> "session", ownerId |-> "o2", currency |-> "usd"]
  ELSE [ownerType |-> "user", ownerId |-> "o1", currency |-> "mxn"]

ConfirmBodies(r) ==
  [session_id : 0..MaxSessions, extras : {ExtrasOf(r)}]

\* A request: the handler's position (pc) and locals, and what an observer
\* of the request records: the body sent, the response, the calls made to the
\* gateway and the datastore, in order and with how each was answered (ops),
\* the payment status the gateway reported (seenStatus), the cart the handler
\* addressed (cartKey) and the id of the session's order when the request
\* arrived (orderAtStart, 0 = none).
IdleReq ==
  [pc |-> "idle",
   session |-> NoSession, ownerType |-> NULL, ownerId |-> NULL, currency |-> NULL,
   cartItems |-> <<>>, amountMXN |-> 0, orderData |-> 0,
   body |-> [session_id |-> 0, extras |-> NoExtras], res |-> NoResponse,
   ops |-> <<>>, seenStatus |-> NULL, cartKey |-> <<>>, orderAtStart |-> 0]

\* A variant: any reported status passes.
IsPaid_anyStatus(session) == session.payment_status # NULL

\* --- line 148: if (session.payment_status !== 'paid')
IsPaid(session) == session.payment_status = "paid"

\* --- lines 154-156: owner and currency come from the session's metadata
MetaOwnerType(body, session) == session.metadata.ownerType

\* A variant: the owner id of the body wins when the body carries one.
MetaOwnerId_fromBody(body, session) ==
  IF Truthy(body.ownerId) THEN body.ownerId ELSE session.metadata.ownerId

\* --- line 155
MetaOwnerId(body, session) == session.metadata.ownerId

MetaCurrency(body, session) ==
  IF Truthy(session.metadata.currency) THEN session.metadata.currency
  ELSE IF Truthy(session.currency) THEN session.currency
  ELSE "mxn"

\* A variant: the query filters on the order id.
ExistingOrders_byId(sid) == {o \in orders : o.id = sid}

\* --- lines 163-167: .from('orders').select('id').eq('stripe_session_id', session.id)
ExistingOrders(sid) == {o \in orders : o.stripe_session_id = sid}

\* A variant: the short-circuit never fires.
ReturnsExisting_never(existing) == FALSE

\* --- line 169: if (existing.data)
ReturnsExisting(existing) == existing # {}

\* --- lines 184-187: total in base currency,
\* acc + Number(it.product?.price || 0) * (it.quantity || 1)
RECURSIVE AmountMXN(_)
AmountMXN(items) ==
  IF items = <<>> THEN 0
  ELSE AmountMXN(SubSeq(items, 1, Len(items) - 1))
       + items[Len(items)].product.price
           * (IF items[Len(items)].quantity = 0 THEN 1 ELSE items[Len(items)].quantity)

\* A variant: only the first cart line is snapshotted.
Items_firstLine(cartItems) ==
  [i \in 1..(IF Len(cartItems) = 0 THEN 0 ELSE 1) |->
     [product_id |-> cartItems[i].product.id,
      price |-> cartItems[i].product.price,
      quantity |-> cartItems[i].quantity]]

\* --- lines 217-225: the snapshot of the cart lines
Items(cartItems) ==
  [i \in 1..Len(cartItems) |->
     [product_id |-> cartItems[i].product.id,
      price |-> cartItems[i].product.price,
      quantity |-> cartItems[i].quantity]]

\* A variant: the row is written without its stripe_session_id.
OrderRow_noSessionId(id, session, ownerType, ownerId, currency, amountMXN, cartItems) ==
  [id |-> id,
   user_id |-> IF ownerType = "user" THEN ownerId ELSE NULL,
   session_id |-> IF ownerType = "session" THEN ownerId ELSE NULL,
   stripe_session_id |-> 0,
   currency |-> currency,
   amount |-> amountMXN,
   status |-> "paid",
   items |-> Items(cartItems)]

\* --- lines 207-226: the row handed to insert (id is given by the table)
OrderRow(id, session, ownerType, ownerId, currency, amountMXN, cartItems) ==
  [id |-> id,
   user_id |-> IF ownerType = "user" THEN ownerId ELSE NULL,
   session_id |-> IF ownerType = "session" THEN ownerId ELSE NULL,
   stripe_session_id |-> session.id,
   currency |-> currency,
   amount |-> amountMXN,
   status |-> "paid",
   items |-> Items(cartItems)]

\* The unique index on orders.stripe_session_id (line 203: "el indice unico
\* nos protege"): an insert is refused when a row of that value exists
\* (rows without a value never collide).
UniqueViolation(row) ==
  /\ row.stripe_session_id # 0
  /\ \E o \in orders : o.stripe_session_id = row.stripe_session_id

\* What the insert can answer: "ok", or an error message.
InsertOutcomes(row) ==
  IF UniqueViolation(row) THEN {M_DUP_SESSION, M_FETCH}
  ELSE {"ok", M_FETCH, M_DUP_PKEY}

\* A variant: the error is recognised by its SQLSTATE, which the message
\* does not carry.
IsDuplicateError_bySqlState(message) ==
  Includes(ToLowerCase(Chars(message)), <<"2", "3", "5", "0", "5">>)

\* --- lines 232-233: is the insert error the lost race?
IsDuplicateError(message) ==
  LET msg == ToLowerCase(Chars(message))
  IN Includes(msg, P_DUPLICATE_KEY) \/ Includes(msg, P_UNIQ) \/ Includes(msg, P_UNIQUE)

\* A variant: the error branch does not return.
ReturnsOnInsertError_never(orderErr) == FALSE

\* --- line 231: if (orderErr) { ... return ... }
ReturnsOnInsertError(orderErr) == orderErr # NULL

\* The handler returns: the response is sent and the locals are gone.
Finish(r, response, op) ==
  [req EXCEPT ![r].pc = "done", ![r].res = response,
              ![r].session = NoSession, ![r].ownerType = NULL, ![r].ownerId = NULL,
              ![r].currency = NULL, ![r].cartItems = <<>>, ![r].amountMXN = 0,
              ![r].orderData = 0,
              ![r].ops = IF op = "" THEN @ ELSE Append(@, op)]

\* The order of a session, as an observer of the ledger sees it (0 = none).
OrderIdOf(sid) ==
  IF \E o \in orders : o.stripe_session_id = sid
  THEN (CHOOSE o \in orders : o.stripe_session_id = sid).id
  ELSE 0

\* lines 139-140, up to the call of stripe.checkout.sessions.retrieve
ConfirmStart(r) ==
  /\ req[r].pc = "idle"
  /\ \E body \in ConfirmBodies(r) :
       IF body.session_id = 0
       THEN req' = [Finish(r, E_SESSION_ID_REQUIRED, "") EXCEPT ![r].body = body]
       ELSE req' = [req EXCEPT ![r].pc = "retrieve", ![r].body = body,
                               ![r].orderAtStart = OrderIdOf(body.session_id)]
  /\ UNCHANGED <<sessions, cart, orders, rate, watch, checkout>>

\* lines 143-167: the gateway answers (it rejects an id it does not know, or
\* cannot be reached: either way retrieve throws into the catch of line
\* 245); payment and metadata checks; the idempotency query is sent.
ConfirmRetrieve(r) ==
  /\ req[r].pc = "retrieve"
  /\ LET sid == req[r].body.session_id IN
     \E answer \in (IF sid \in 1..Len(sessions) THEN {"retrieve_ok"}
                    ELSE {"retrieve_rejected"}) \cup {"retrieve_unreachable"} :
       IF answer # "retrieve_ok"
       THEN req' = Finish(r, E_INTERNAL, answer)
       ELSE LET session == sessions[sid]
                ownerType == MetaOwnerType(req[r].body.extras, session)
                ownerId == MetaOwnerId(req[r].body.extras, session)
                currency == MetaCurrency(req[r].body.extras, session)
            IN IF ~IsPaid(session)
               THEN req' = [Finish(r, ENotPaid(session.payment_status), answer)
                              EXCEPT ![r].seenStatus = session.payment_status]
               ELSE IF ~Truthy(ownerType) \/ ~Truthy(ownerId)
               THEN req' = [Finish(r, E_MISSING_OWNER, answer)
                              EXCEPT ![r].seenStatus = session.payment_status]
               ELSE req' = [req EXCEPT ![r].pc = "lookup", ![r].session = session,
                                       ![r].seenStatus = session.payment_status,
                                       ![r].ownerType = ownerType,
                                       ![r].ownerId = ownerId,
                                       ![r].currency = currency,
                                       ![r].ops = Append(@, answer)]
  /\ UNCHANGED <<sessions, cart, orders, rate, watch, checkout>>

\* lines 163-179: the idempotency query is answered (existing.error is not
\* looked at: a failed query reads as "no order"); the cart query is sent.
ConfirmLookup(r) ==
  /\ req[r].pc = "lookup"
  /\ \E answered \in BOOLEAN :
       LET existing == IF answered THEN ExistingOrders(req[r].session.id) ELSE {}
           op == IF ~answered THEN "lookup_failed"
                 ELSE IF OrderIdOf(req[r].session.id) # 0 THEN "lookup_found"
                 ELSE "lookup_none"
       IN IF ReturnsExisting(existing)
          THEN req' = Finish(r, AlreadyProcessed((CHOOSE o \in existing : TRUE).id), op)
          ELSE req' = [req EXCEPT ![r].pc = "readCart", ![r].ops = Append(@, op)]
  /\ UNCHANGED <<sessions, cart, orders, rate, watch, checkout>>

\* lines 178-229: the cart query is answered; total; the insert is sent.
ConfirmReadCart(r) ==
  /\ req[r].pc = "readCart"
  /\ \E answered \in BOOLEAN :
       IF ~answered
       THEN req' = [Finish(r, EMessage(M_FETCH), "readCart_failed")
                      EXCEPT ![r].cartKey = <<req[r].ownerType, req[r].ownerId>>]
       ELSE LET cartItems == CartOf(req[r].ownerType, req[r].ownerId) IN
            req' = [req EXCEPT ![r].pc = "insert",
                               ![r].cartItems = cartItems,
                               ![r].amountMXN = AmountMXN(cartItems),
                               ![r].cartKey = <<req[r].ownerType, req[r].ownerId>>,
                               ![r].ops = Append(@, "readCart_ok")]
  /\ UNCHANGED <<sessions, cart, orders, rate, watch, checkout>>

\* lines 204-242: the insert is answered; on an error the handler returns,
\* otherwise the cart delete is sent.  The table gives the row its id.
ConfirmInsert(r) ==
  /\ req[r].pc = "insert"
  /\ LET row == OrderRow(Cardinality(orders) + 1, req[r].session, req[r].ownerType,
                         req[r].ownerId, req[r].currency, req[r].amountMXN,
                         req[r].cartItems) IN
     \E outcome \in InsertOutcomes(row) :
       LET orderErr == IF outcome = "ok" THEN NULL ELSE outcome
           orderData == IF outcome = "ok" THEN row.id ELSE 0
           op == IF outcome = "ok" THEN "insert_ok"
                 ELSE IF outcome = M_DUP_SESSION THEN "insert_conflict"
                 ELSE "insert_failed"
       IN /\ orders' = IF outcome = "ok" THEN orders \cup {row} ELSE orders
          /\ IF ReturnsOnInsertError(orderErr)
             THEN IF IsDuplicateError(orderErr)
                  THEN req' = Finish(r, AlreadyProcessedRace, op)
                  ELSE req' = Finish(r, EMessage(orderErr), op)
             ELSE req' = [req EXCEPT ![r].pc = "clear", ![r].orderData = orderData,
                                     ![r].ops = Append(@, op)]
  /\ UNCHANGED <<sessions, cart, rate, watch, checkout>>

\* lines 240-244: the cart delete is answered (its error is not looked at);
\* the handler answers with orderData.id (orderData is null after a failed
\* insert: reading its id throws into the catch of line 245).
ConfirmClearCart(r) ==
  /\ req[r].pc = "clear"
  /\ \E answered \in BOOLEAN :
       /\ cart' = IF answered THEN CartWithout(req[r].ownerType, req[r].ownerId) ELSE cart
       /\ req' = [Finish(r, IF req[r].orderData = 0 THEN E_INTERNAL
                            ELSE OrderCreated(req[r].orderData),
                         IF answered THEN "delete_ok" ELSE "delete_failed")
                    EXCEPT ![r].cartKey = <<req[r].ownerType, req[r].ownerId>>]
  /\ UNCHANGED <<sessions, orders, rate, watch, checkout>>

\* ------------------------------------------------- create-checkout-session
\* The bodies the handler is sent: ownerType, ownerId, currency.
Body(ownerType, ownerId, currency) ==
  [ownerType |-> ownerType, ownerId |-> ownerId, currency |-> currency]

CheckoutBodies ==
  { Body("user", "o1", NULL), Body("session", "o2", "USD"), Body("guest", "o2", NULL),
    Body(NULL, "o1", NULL), Body("user", NULL, "USD"), Body("user", "o1", "eur"),
    Body("user", "o2", NULL), Body(NULL, "o1", "eur") }

\* String.prototype.toLowerCase on the currency codes a body may carry.
LowerCurrency(c) == IF c = "USD" THEN "usd" ELSE c

\* line 62: (currency || 'mxn').toLowerCase()
Curr(currency) == LowerCurrency(IF Truthy(currency) THEN currency ELSE "mxn")

\* Math.round(n / d) for an integer n and a positive integer d: the nearest
\* integer, a half going up (towards plus infinity).
MathRound(n, d) == (2 * n + d) \div (2 * d)

\* A variant: the cents are truncated.
UnitAmount_truncated(priceMXN, curr, rt) ==
  IF curr = "mxn" THEN priceMXN * 100 ELSE (priceMXN * 100) \div rt

\* --- lines 89-92: curr === 'mxn' ? Math.round(priceMXN * 100)
\*                                 : Math.round((priceMXN / USD_MXN_RATE) * 100)
UnitAmount(priceMXN, curr, rt) ==
  IF curr = "mxn" THEN MathRound(priceMXN * 100, 1) ELSE MathRound(priceMXN * 100, rt)

\* --- line 86: Number(p?.price || 0); a row whose product is missing joins
\* as product id 0 with price 0, which is what this expression makes of it.
PriceMXN(item) == item.product.price

\* --- line 87: if (!priceMXN) throw
HasPrice(priceMXN) == priceMXN # 0

\* --- lines 84-106: the line items (quantity, currency and unit_amount of
\* price_data; the product's name, description and image play no part).
LineItems(cartItems, curr, rt) ==
  [i \in 1..Len(cartItems) |->
     [quantity |-> IF cartItems[i].quantity = 0 THEN 1 ELSE cartItems[i].quantity,
      currency |-> curr,
      unit_amount |-> UnitAmount(PriceMXN(cartItems[i]), curr, rt)]]

\* The gateway makes a session only of line items whose minor-unit amounts
\* are non-negative integers; anything else it rejects, and create throws.
GatewayAccepts(line_items) ==
  \A i \in 1..Len(line_items) : line_items[i].unit_amount >= 0

\* What is recorded of a call: the body, the response (HTTP code, error
\* text, session id), whether the cart was read and what it held, how many
\* times the gateway's create was called and with which line items.
CheckoutRecord(body, code, error, id, cartRead, cartItems, calls, sent) ==
  [body |-> body, code |-> code, error |-> error, id |-> id,
   cartRead |-> cartRead, cartItems |-> cartItems, calls |-> calls, sent |-> sent]

NoCheckout == CheckoutRecord(Body(NULL, NULL, NULL), 0, "", 0, FALSE, <<>>, 0, <<>>)

E_OWNER_REQUIRED == "ownerType y ownerId son requeridos"
E_CURRENCY == "Moneda no permitida (mxn, usd)"
E_CART_EMPTY == "Cart vacio"

\* lines 54-127, the whole handler: validation, one read of the cart, the
\* line items, one call of the gateway (which makes the session); it writes
\* nothing else.  cartAnswered and gatewayUp are the environment's part.
CheckoutCall(body, cartAnswered, gatewayUp) ==
  LET curr == Curr(body.currency)
      cartItems == CartOf(body.ownerType, body.ownerId)
      line_items == LineItems(cartItems, curr, rate)
      id == Len(sessions) + 1
  IN IF ~Truthy(body.ownerType) \/ ~Truthy(body.ownerId)
     THEN CheckoutRecord(body, 400, E_OWNER_REQUIRED, 0, FALSE, <<>>, 0, <<>>)
     ELSE IF curr \notin ALLOWED_CURRENCIES
     THEN CheckoutRecord(body, 400, E_CURRENCY, 0, FALSE, <<>>, 0, <<>>)
     ELSE IF ~cartAnswered
     THEN CheckoutRecord(body, 500, M_FETCH, 0, TRUE, <<>>, 0, <<>>)
     ELSE IF Len(cartItems) = 0
     THEN CheckoutRecord(body, 400, E_CART_EMPTY, 0, TRUE, cartItems, 0, <<>>)
     ELSE IF \E i \in 1..Len(cartItems) : ~HasPrice(PriceMXN(cartItems[i]))
     THEN CheckoutRecord(body, 500, "internal", 0, TRUE, cartItems, 0, <<>>)
     ELSE IF ~gatewayUp \/ ~GatewayAccepts(line_items)
     THEN CheckoutRecord(body, 500, "internal", 0, TRUE, cartItems, 1, line_items)
     ELSE CheckoutRecord(body, 200, "", id, TRUE, cartItems, 1, line_items)

CreateCheckoutSession ==
  \E body \in CheckoutBodies, cartAnswered \in BOOLEAN, gatewayUp \in BOOLEAN :
    LET call == CheckoutCall(body, cartAnswered, gatewayUp)
        curr == Curr(body.currency)
    IN \* a call that fails and is not recorded leaves no trace: a stutter
       /\ watch \/ (cartAnswered /\ gatewayUp /\ Len(sessions) < MaxSessions)
       /\ watch \/ call.code = 200
       /\ call.code = 200 => Len(sessions) < MaxSessions
       /\ sessions' = IF call.code = 200
                      THEN Append(sessions,
                             [id |-> call.id, payment_status |-> "unpaid", currency |-> curr,
                              metadata |-> [ownerType |-> body.ownerType,
                                            ownerId |-> body.ownerId,
                                            currency |-> curr]])
                      ELSE sessions
       /\ checkout' = IF watch THEN call ELSE checkout
       /\ UNCHANGED <<cart, orders, req, rate, watch>>

\* ------------------------------------------------------------ environment
\* The cart CRUD adds a row (a product is in a cart once).
AddCartLine ==
  /\ Len(cart) < MaxCartLines
  /\ \E line \in CartLineChoices :
       /\ \A i \in 1..Len(cart) : cart[i] # line
       /\ cart' = Append(cart, line)
  /\ UNCHANGED <<sessions, orders, req, rate, watch, checkout>>

\* The cart CRUD adds a row of the wider catalogue.
AddCartLineAnyPrice ==
  /\ Len(cart) < MaxCartLines
  /\ \E line \in AnyPriceLineChoices :
       /\ \A i \in 1..Len(cart) : cart[i] # line
       /\ cart' = Append(cart, line)
  /\ UNCHANGED <<sessions, orders, req, rate, watch, checkout>>

\* The customer pays at the gateway.
Pay ==
  /\ \E i \in 1..Len(sessions) :
       /\ sessions[i].payment_status = "unpaid"
       /\ sessions' = [sessions EXCEPT ![i].payment_status = "paid"]
  /\ UNCHANGED <<cart, orders, req, rate, watch, checkout>>

\* A checkout session made at the gateway by other means: no metadata.
ForeignSession ==
  /\ Len(sessions) < MaxSessions
  /\ \E status \in {"unpaid", "no_payment_required"} :
       sessions' = Append(sessions,
         [id |-> Len(sessions) + 1, payment_status |-> status, currency |-> "usd",
          metadata |-> [ownerType |-> NULL, ownerId |-> NULL, currency |-> NULL]])
  /\ UNCHANGED <<cart, orders, req, rate, watch, checkout>>

\* ----------------------------------------------------------------- Init
Init ==
  /\ sessions = <<>>
  /\ cart = <<>>
  /\ orders = {}
  /\ req = [r \in Req |-> IdleReq]
  /\ rate = USD_MXN_RATE
  /\ watch = FALSE
  /\ checkout = NoCheckout

Next ==
  \/ \E r \in Req : ConfirmStart(r)
  \/ \E r \in Req : ConfirmRetrieve(r)
  \/ \E r \in Req : ConfirmLookup(r)
  \/ \E r \in Req : ConfirmReadCart(r)
  \/ \E r \in Req : ConfirmInsert(r)
  \/ \E r \in Req : ConfirmClearCart(r)
  \/ CreateCheckoutSession
  \/ AddCartLine
  \/ Pay
  \/ ForeignSession

Spec == Init /\ [][Next]_vars

\* The caller of request r got an internal error and calls confirm again
\* for the same session: a new run of the handler.
Retry(r) ==
  /\ req[r].pc = "done"
  /\ req[r].res.code = 500
  /\ req' = [req EXCEPT ![r] = [IdleReq EXCEPT !.pc = "retrieve",
                                               !.body = req[r].body,
                                               !.orderAtStart = OrderIdOf(req[r].body.session_id)]]
  /\ UNCHANGED <<sessions, cart, orders, rate, watch, checkout>>

\* One await of the handler of request r is answered.
HandlerStep(r) ==
  \/ ConfirmRetrieve(r)
  \/ ConfirmLookup(r)
  \/ ConfirmReadCart(r)
  \/ ConfirmInsert(r)
  \/ ConfirmClearCart(r)

NextRetry ==
  \/ Next
  \/ \E r \in Req : Retry(r)

\* Callers that retry on an internal error.  Every await is answered in the
\* end (the event loop runs every continuation), and a caller that got an
\* internal error does call again.
SpecRetry ==
  /\ Init /\ [][NextRetry]_vars
  /\ \A r \in Req : WF_vars(HandlerStep(r)) /\ WF_vars(Retry(r))

\* The checkout side on its own, every call recorded: the process runs with
\* one of the rates, the cart CRUD may add rows of the wider catalogue.
InitCheckout ==
  /\ sessions = <<>>
  /\ cart = <<>>
  /\ orders = {}
  /\ req = [r \in Req |-> IdleReq]
  /\ rate \in RateChoices
  /\ watch = TRUE
  /\ checkout = NoCheckout

NextCheckout ==
  \/ CreateCheckoutSession
  \/ AddCartLine
  \/ AddCartLineAnyPrice
  \/ Pay

SpecCheckout == InitCheckout /\ [][NextCheckout]_vars

\* ============================================================== properties
Has(seq, x) == \E i \in 1..Len(seq) : seq[i] = x

Done(r) == req[r].pc = "done"
Sid(r) == req[r].body.session_id
Ops(r) == req[r].ops
Res(r) == req[r].res

SessionIds == 1..MaxSessions

OrdersOf(s) == {o \in orders : o.stripe_session_id = s}

\* Requests sent for session s.
CallersOf(s) == {r \in Req : Sid(r) = s}

\* Requests whose own insert for session s succeeded.
InsertersOf(s) == {r \in CallersOf(s) : Has(Ops(r), "insert_ok")}

\* The environment failed a call of r in a way the handler must report.
HitOutage(r) ==
  \/ Has(Ops(r), "retrieve_unreachable")
  \/ Has(Ops(r), "readCart_failed")
  \/ Has(Ops(r), "insert_failed")

\* C1: for every session, in every reachable state and under every
\* interleaving of the confirm requests, the ledger holds at most one order of
\* that stripe_session_id, the inserts that succeeded are exactly as many as
\* the rows, and as soon as one request's insert was answered with success or
\* with the violation of the unique index, exactly one insert has succeeded.
C1_AtMostOneOrderPerSession ==
  \A s \in SessionIds :
    /\ Cardinality(OrdersOf(s)) <= 1
    /\ Cardinality(InsertersOf(s)) = Cardinality(OrdersOf(s))
    /\ (\E r \in CallersOf(s) : Has(Ops(r), "insert_ok") \/ Has(Ops(r), "insert_conflict"))
         => Cardinality(InsertersOf(s)) = 1

\* Two requests of one session both passed the idempotency query with "no
\* order" before either inserted: one inserted, the other hit the index.
C1_Witness ==
  \E r1, r2 \in Req :
    /\ r1 # r2 /\ Sid(r1) = Sid(r2) /\ Sid(r1) # 0
    /\ Has(Ops(r1), "lookup_none") /\ Has(Ops(r1), "insert_ok")
    /\ Has(Ops(r2), "lookup_none") /\ Has(Ops(r2), "insert_conflict")
    /\ Cardinality(OrdersOf(Sid(r1))) = 1

\* C2: every confirm that returns success (and met no failure of the gateway
\* or the datastore) returns an orderId, the id of the order of its session.
C2_SuccessCarriesOrderId ==
  \A r \in Req :
    (Done(r) /\ Res(r).code = 200 /\ ~HitOutage(r) /\ ~Has(Ops(r), "lookup_failed"))
      => /\ Res(r).orderId # 0
         /\ Res(r).orderId = OrderIdOf(Sid(r))

\* C3: when exactly two confirm calls were made for a paid session and both
\* have returned without an outage of the gateway or the datastore, one
\* answered orderCreated (alreadyProcessed false), the other
\* alreadyProcessed:true, neither an error, and the ledger holds exactly one
\* row of the session.
C3_TwoConfirmsOneCreated ==
  \A s \in SessionIds :
    ( /\ Cardinality(CallersOf(s)) = 2
      /\ \A r \in CallersOf(s) :
           /\ Done(r) /\ ~HitOutage(r)
           /\ req[r].seenStatus = "paid" /\ Res(r) # E_MISSING_OWNER )
    => /\ Cardinality({r \in CallersOf(s) : Res(r).kind = "orderCreated"}) = 1
       /\ Cardinality({r \in CallersOf(s) : Res(r).kind = "alreadyProcessed"}) = 1
       /\ Cardinality(OrdersOf(s)) = 1

\* Both calls have returned, and the one that answered alreadyProcessed had
\* got as far as the insert.
C3_Witness ==
  \E s \in SessionIds :
    /\ Cardinality(CallersOf(s)) = 2
    /\ \A r \in CallersOf(s) : Done(r) /\ ~HitOutage(r) /\ req[r].seenStatus = "paid"
    /\ \E r \in CallersOf(s) : Res(r) = AlreadyProcessedRace /\ Has(Ops(r), "insert_conflict")
    /\ \E r \in CallersOf(s) : Res(r).kind = "orderCreated"

\* C4: a confirm that saw a payment status other than paid answers the
\* not-paid error carrying that status, and its only call was the retrieve: no
\* ledger query, no cart query, no insert, no delete; and no order is ever held
\* for a session that is not paid.
C4_UnpaidNoEffects ==
  /\ \A r \in Req :
       (req[r].seenStatus # NULL /\ req[r].seenStatus # "paid")
         => /\ Done(r)
            /\ Res(r) = ENotPaid(req[r].seenStatus)
            /\ Ops(r) = <<"retrieve_ok">>
  /\ \A o \in orders :
       o.stripe_session_id \in 1..Len(sessions)
         => sessions[o.stripe_session_id].payment_status = "paid"

\* A confirm of an unpaid session has answered while the owner had a cart.
C4_Witness ==
  \E r \in Req :
    /\ Done(r) /\ Res(r) = ENotPaid("unpaid")
    /\ Truthy(sessions[Sid(r)].metadata.ownerType)
    /\ sessions[Sid(r)].payment_status = "unpaid"
    /\ CartOf(sessions[Sid(r)].metadata.ownerType, sessions[Sid(r)].metadata.ownerId) # <<>>
    /\ OrdersOf(Sid(r)) = {}

\* C5: when the insert fails, confirm answers alreadyProcessed:true if and
\* only if the failure is the violation of the unique index on
\* stripe_session_id; a failure of any other cause is answered as an error.
C5_OnlySessionConflictIsSuccess ==
  \A r \in Req :
    Done(r) =>
      /\ Has(Ops(r), "insert_conflict") => Res(r) = AlreadyProcessedRace
      /\ Has(Ops(r), "insert_failed") => Res(r).kind = "error"

\* C6: a request sends the cart delete only after its own insert succeeded;
\* a request that answers alreadyProcessed:true or an error has sent none; for
\* one session at most one delete is sent.
C6_ClearOnlyAfterOwnInsert ==
  /\ \A r \in Req :
       (Has(Ops(r), "delete_ok") \/ Has(Ops(r), "delete_failed"))
         => /\ Len(Ops(r)) = 5 /\ Ops(r)[4] = "insert_ok"
            /\ Res(r).kind = "orderCreated"
  /\ \A r \in Req :
       (Done(r) /\ Res(r).kind # "orderCreated") => req[r].pc # "clear" /\ ~Has(Ops(r), "delete_ok")
  /\ \A s \in SessionIds :
       Cardinality({r \in CallersOf(s) : Has(Ops(r), "delete_ok") \/ Has(Ops(r), "delete_failed")}) <= 1

\* One request of a session cleared the cart after its insert, another of the
\* same session lost the race and returned without a delete.
C6_Witness ==
  \E r1, r2 \in Req :
    /\ r1 # r2 /\ Sid(r1) = Sid(r2)
    /\ Done(r1) /\ Has(Ops(r1), "insert_ok") /\ Has(Ops(r1), "delete_ok")
    /\ Done(r2) /\ Has(Ops(r2), "insert_conflict") /\ ~Has(Ops(r2), "delete_ok")

\* C7: a confirm whose idempotency query finds the session's order returns
\* at once alreadyProcessed:true with that order's id: its calls are the
\* retrieve and the query, no cart query, no insert, no delete.
C7_ExistingShortCircuits ==
  \A r \in Req :
    Has(Ops(r), "lookup_found")
      => /\ Done(r)
         /\ Ops(r) = <<"retrieve_ok", "lookup_found">>
         /\ Res(r).orderId # 0
         /\ Res(r) = AlreadyProcessed(OrderIdOf(Sid(r)))

\* A confirm found the order while the owner's cart held lines again.
C7_Witness ==
  \E r \in Req :
    /\ Has(Ops(r), "lookup_found") /\ Done(r)
    /\ CartOf(sessions[Sid(r)].metadata.ownerType, sessions[Sid(r)].metadata.ownerId) # <<>>

\* A confirm that arrives when its session has an order, passes the gateway
\* verification and has its idempotency query answered, returns that order.
StartedAfterOrderReturnsIt ==
  \A r \in Req :
    ( /\ Done(r) /\ req[r].orderAtStart # 0
      /\ req[r].seenStatus = "paid" /\ Res(r) # E_MISSING_OWNER
      /\ ~Has(Ops(r), "lookup_failed") )
    => Res(r) = AlreadyProcessed(req[r].orderAtStart)

\* C8: CONFIRMED is terminal: no step of the service (a confirm or a
\* create-checkout-session, for any session or owner) or of its environment
\* changes or removes a row of the ledger; and a confirm that arrives when its
\* session has an order, passes the gateway verification and has its
\* idempotency query answered, returns alreadyProcessed:true with that order's
\* id.
C8_ConfirmedIsTerminal ==
  /\ [][orders \subseteq orders']_vars
  /\ []StartedAfterOrderReturnsIt

\* A confirm that arrived after the order was there has returned it, and a
\* further checkout session was made since.
C8_Witness ==
  \E r \in Req :
    /\ Done(r) /\ req[r].orderAtStart # 0
    /\ Res(r) = AlreadyProcessed(req[r].orderAtStart)
    /\ Len(sessions) > Sid(r)

\* The owner and currency columns of a row, as the metadata of its session
\* gives them.
RowMatchesMetadata(o) ==
  LET m == sessions[o.stripe_session_id].metadata IN
  /\ o.user_id = (IF m.ownerType = "user" THEN m.ownerId ELSE NULL)
  /\ o.session_id = (IF m.ownerType = "session" THEN m.ownerId ELSE NULL)
  /\ o.currency = m.currency

\* C9: whatever the body of the confirm carries besides session_id, the
\* owner and currency written to the order are those of the session's
\* metadata, and the cart that is read and deleted is the cart of the
\* metadata's owner.
C9_OwnerFromMetadataOnly ==
  /\ \A o \in orders : RowMatchesMetadata(o)
  /\ \A r \in Req :
       req[r].cartKey # <<>>
         => req[r].cartKey = <<sessions[Sid(r)].metadata.ownerType,
                               sessions[Sid(r)].metadata.ownerId>>

\* A request whose body names another owner and currency than the metadata
\* created the order and cleared the cart.
C9_Witness ==
  \E r \in Req :
    /\ Done(r) /\ Res(r).kind = "orderCreated" /\ Has(Ops(r), "delete_ok")
    /\ Truthy(req[r].body.extras.ownerId)
    /\ req[r].body.extras.ownerId # sessions[Sid(r)].metadata.ownerId
    /\ req[r].body.extras.ownerType # sessions[Sid(r)].metadata.ownerType
    /\ req[r].body.extras.currency # sessions[Sid(r)].metadata.currency

\* C10: the answer to a session id the gateway rejects differs from the
\* answer given when the gateway cannot be reached, and is not the internal
\* error.
C10_SessionNotFoundDistinct ==
  /\ \A r \in Req : Has(Ops(r), "retrieve_rejected") => Res(r) # E_INTERNAL
  /\ \A r1, r2 \in Req :
       (Has(Ops(r1), "retrieve_rejected") /\ Has(Ops(r2), "retrieve_unreachable"))
         => Res(r1) # Res(r2)

\* ---------------------------------------------------------------- C11
\* The sum of price times quantity over a sequence of lines, each given as
\* <<price, quantity>>.
RECURSIVE SumOfLines(_)
SumOfLines(lines) ==
  IF lines = <<>> THEN 0
  ELSE lines[1][1] * lines[1][2] + SumOfLines(Tail(lines))

\* The request's own insert was answered with the new row and the handler
\* still holds the cart lines it read.
JustInserted(r) == req[r].pc = "clear" /\ req[r].orderData # 0

OrderById(id) == CHOOSE o \in orders : o.id = id

\* C11: the order a confirm call creates carries as amount the sum, over the
\* cart lines that same call read, of the line's product price times its
\* quantity, and as items one entry per line read, in order, with that
\* line's product id, price and quantity; and every order's amount is the
\* sum of price times quantity over its own items.
C11_OrderSnapshotsCartRead ==
  /\ \A r \in Req :
       JustInserted(r) =>
         LET o == OrderById(req[r].orderData)
             read == req[r].cartItems
         IN /\ o.stripe_session_id = Sid(r)
            /\ o.amount = SumOfLines([i \in 1..Len(read) |->
                                       <<read[i].product.price, read[i].quantity>>])
            /\ Len(o.items) = Len(read)
            /\ \A i \in 1..Len(read) :
                 /\ o.items[i].product_id = read[i].product.id
                 /\ o.items[i].price = read[i].product.price
                 /\ o.items[i].quantity = read[i].quantity
  /\ \A o \in orders :
       o.amount = SumOfLines([i \in 1..Len(o.items) |->
                                <<o.items[i].price, o.items[i].quantity>>])

\* The cart [{price 50, quantity 2}, {price 30, quantity 1}] was read and the
\* order was written with amount 130 and two items.
C11_Witness ==
  \E r \in Req :
    /\ JustInserted(r)
    /\ Len(req[r].cartItems) = 2
    /\ {req[r].cartItems[i].product.price * req[r].cartItems[i].quantity : i \in 1..2}
         = {100, 30}
    /\ OrderById(req[r].orderData).amount = 130
    /\ Len(OrderById(req[r].orderData).items) = 2

\* ---------------------------------------------------------------- C12
\* The step in which request r's cart delete is answered and r returns
\* orderCreated.
ReturnsCreated(r) ==
  /\ req[r].pc = "clear" /\ req'[r].pc = "done"
  /\ req'[r].res.kind = "orderCreated"
  /\ Has(req'[r].ops, "delete_ok")

\* Nobody changed the owner's cart since r read it.
CartAsRead(r) == CartOf(req[r].ownerType, req[r].ownerId) = req[r].cartItems

\* At the return of orderCreated the ledger holds the order of the session
\* with the id returned and the total of the owner's cart as amount, and the
\* owner's cart is empty.
CreatedThenCartEmpty ==
  \A r \in Req :
    (ReturnsCreated(r) /\ CartAsRead(r)) =>
      LET mine == CartOf(req[r].ownerType, req[r].ownerId) IN
      /\ \E o \in orders' :
           /\ o.id = req'[r].res.orderId
           /\ o.stripe_session_id = Sid(r)
           /\ o.amount = SumOfLines([i \in 1..Len(mine) |->
                                      <<mine[i].product.price, mine[i].quantity>>])
      /\ \A i \in 1..Len(cart') : ~OwnsLine(req[r].ownerType, req[r].ownerId, cart'[i])

\* A confirm that arrived when the session had its order, and whose gateway
\* and idempotency calls were answered, changes neither ledger nor cart.
SecondConfirmChangesNothing ==
  \A r \in Req :
    ( /\ req'[r] # req[r] /\ req[r].orderAtStart # 0
      /\ ~Has(req'[r].ops, "lookup_failed") )
    => (orders' = orders /\ cart' = cart)

\* After a first confirm returned orderCreated, a second confirm of the same
\* session that is answered by gateway and datastore returns
\* alreadyProcessed with the same orderId, having sent nothing but the
\* retrieve and the idempotency query.
SecondConfirmReturnsSameOrder ==
  \A r1, r2 \in Req :
    ( /\ Done(r1) /\ Res(r1).kind = "orderCreated"
      /\ Done(r2) /\ Sid(r2) = Sid(r1)
      /\ req[r2].orderAtStart = Res(r1).orderId
      /\ Ops(r2) # <<>> /\ ~HitOutage(r2) /\ ~Has(Ops(r2), "lookup_failed") )
    => /\ Res(r2) = AlreadyProcessed(Res(r1).orderId)
       /\ Ops(r2) = <<"retrieve_ok", "lookup_found">>

\* C12: end to end, with every call to gateway and datastore answered and
\* the owner's cart not changed by others between confirm's read and
\* delete: when confirm returns orderCreated, the order of the session
\* exists with the cart total as amount and the owner's cart is empty; a
\* second confirm of the session then returns alreadyProcessed with the
\* same orderId and changes nothing.
C12_EndToEnd ==
  /\ [][CreatedThenCartEmpty]_vars
  /\ [][SecondConfirmChangesNothing]_vars
  /\ []SecondConfirmReturnsSameOrder

\* The first confirm created a non-empty order and emptied the cart, and
\* the second confirm of the session has returned the same order.
C12_Witness ==
  \E r1, r2 \in Req :
    /\ Done(r1) /\ Res(r1).kind = "orderCreated" /\ Has(Ops(r1), "delete_ok")
    /\ Done(r2) /\ Sid(r2) = Sid(r1)
    /\ req[r2].orderAtStart = Res(r1).orderId
    /\ Res(r2) = AlreadyProcessed(Res(r1).orderId)
    /\ OrderById(Res(r1).orderId).amount > 0
    /\ CartOf(req[r1].cartKey[1], req[r1].cartKey[2]) = <<>>

\* ---------------------------------------------------------------- C13
\* n is a / b (a >= 0, b > 0) rounded to the nearest integer, a half going
\* away from zero.
IsRoundedHalfAway(n, a, b) == 2 * a - b < 2 * b * n /\ 2 * b * n <= 2 * a + b

\* The recorded call reached the gateway with line items.
Sent == checkout.calls = 1

SentCurrency == Curr(checkout.body.currency)

\* C13: for every cart line of positive base price, the unit amount sent to
\* the gateway is price * 100 when the checkout currency is the base
\* currency and (price / rate) * 100 otherwise, rounded line by line to the
\* nearest integer with a half going away from zero, and never negative; a
\* price of 100 gives 10000 in base currency and 588 in quote currency at
\* rate 17, a price of 200 gives 1000 in quote currency at rate 20.
C13_UnitAmountRounded ==
  Sent =>
    /\ Len(checkout.sent) = Len(checkout.cartItems)
    /\ \A i \in 1..Len(checkout.cartItems) :
         LET price == checkout.cartItems[i].product.price
             amount == checkout.sent[i].unit_amount
         IN price > 0 =>
              /\ amount \in Nat
              /\ SentCurrency = "mxn" => amount = price * 100
              /\ SentCurrency = "usd" => IsRoundedHalfAway(amount, price * 100, rate)
              /\ (price = 100 /\ SentCurrency = "mxn") => amount = 10000
              /\ (price = 100 /\ SentCurrency = "usd" /\ rate = 17) => amount = 588
              /\ (price = 200 /\ SentCurrency = "usd" /\ rate = 20) => amount = 1000

\* A line of price 1 was priced in quote currency at rate 8: 12.5 cents,
\* sent as 13; next to it a line of price 10 sent as 125.
C13_Witness ==
  /\ Sent /\ checkout.code = 200 /\ rate = 8 /\ SentCurrency = "usd"
  /\ \E i, j \in 1..Len(checkout.sent) :
       /\ checkout.cartItems[i].product.price = 1
       /\ checkout.sent[i].unit_amount = 13
       /\ checkout.cartItems[j].product.price = 10
       /\ checkout.sent[j].unit_amount = 125

\* ---------------------------------------------------------------- C14
\* The cart the recorded call read holds a line whose price is zero,
\* negative or missing.
ReadInvalidPrice ==
  /\ checkout.cartRead
  /\ \E i \in 1..Len(checkout.cartItems) : checkout.cartItems[i].product.price <= 0

\* C14: whenever a line of the cart has a base price that is zero, negative
\* or missing, create-checkout-session fails without calling the gateway
\* and without a session being made; and no line item with a unit amount of
\* zero or less is ever sent to the gateway.
C14_InvalidPriceNeverSent ==
  /\ ReadInvalidPrice => (checkout.code # 200 /\ checkout.calls = 0 /\ checkout.id = 0)
  /\ \A i \in 1..Len(checkout.sent) : checkout.sent[i].unit_amount > 0

\* ---------------------------------------------------------------- C15
\* The currency code of the recorded body is none of the allowed ones, in
\* any letter case.
CurrencyOutsideAllowed ==
  /\ Truthy(checkout.body.currency)
  /\ checkout.body.currency \notin {"mxn", "usd", "MXN", "USD"}

OwnerGiven == Truthy(checkout.body.ownerType) /\ Truthy(checkout.body.ownerId)

\* C15: a create-checkout-session call whose currency code is outside the
\* allowed set never reads the cart and never calls the gateway, and (the
\* owner fields being present, which are validated first) it fails with the
\* unsupported-currency error; every call that reaches the gateway carries
\* an allowed currency.
C15_UnsupportedCurrencyFirst ==
  /\ CurrencyOutsideAllowed =>
       /\ checkout.code = 400 /\ checkout.id = 0
       /\ ~checkout.cartRead /\ checkout.calls = 0 /\ checkout.sent = <<>>
       /\ OwnerGiven => checkout.error = E_CURRENCY
  /\ \A i \in 1..Len(checkout.sent) : checkout.sent[i].currency \in {"mxn", "usd"}
  /\ \A i \in 1..Len(sessions) : sessions[i].currency \in {"mxn", "usd"}

\* A call in "eur" was refused while the owner's cart held priced lines and
\* the gateway had room for a session.
C15_Witness ==
  /\ CurrencyOutsideAllowed /\ OwnerGiven
  /\ checkout.error = E_CURRENCY
  /\ CartOf(checkout.body.ownerType, checkout.body.ownerId) # <<>>
  /\ \A i \in 1..Len(cart) : cart[i].product.price > 0
  /\ Len(sessions) < MaxSessions

\* ---------------------------------------------------------------- C16
\* A step that makes a session or records a call leaves ledger and cart as
\* they were.
CheckoutWritesNothing ==
  (sessions' # sessions \/ checkout' # checkout) => (orders' = orders /\ cart' = cart)

\* The recorded call failed validation: owner missing, currency not
\* allowed, cart empty, or a line without a positive price.
ValidationFails ==
  \/ ~OwnerGiven
  \/ CurrencyOutsideAllowed
  \/ checkout.error = E_CART_EMPTY
  \/ ReadInvalidPrice

\* C16: create-checkout-session writes no local state, whatever its outcome
\* (ledger and every cart are as before the call); when it succeeds it has
\* called the gateway's create exactly once, and when validation fails
\* (missing owner, unsupported currency, empty cart, invalid price) it has
\* not called it.
C16_NoLocalWritesOneGatewayCall ==
  /\ [][CheckoutWritesNothing]_vars
  /\ [](checkout.code = 200 => checkout.calls = 1)
  /\ [](ValidationFails => checkout.calls = 0)

\* ---------------------------------------------------------------- C17
FaultTags ==
  {"retrieve_unreachable", "lookup_failed", "readCart_failed", "insert_failed",
   "delete_failed"}

\* A call to the gateway or the datastore fails in this step.
FaultStep ==
  \E r \in Req :
    /\ Len(req'[r].ops) = Len(req[r].ops) + 1
    /\ req'[r].ops[Len(req'[r].ops)] \in FaultTags

\* A confirm for session s passed the gateway verification: s is paid and
\* carries its owner.
Verified(s) ==
  \E r \in CallersOf(s) :
    /\ Has(Ops(r), "retrieve_ok") /\ req[r].seenStatus = "paid"
    /\ Res(r) # E_MISSING_OWNER

\* A confirm for session s has returned success and the ledger holds exactly
\* one order of s.
ConfirmedOnce(s) ==
  /\ \E r \in CallersOf(s) : Done(r) /\ Res(r).code = 200
  /\ Cardinality(OrdersOf(s)) = 1

\* C17: retrying confirm is safe and effective in the end: whatever
\* attempts failed with an internal error, the ledger never holds more than
\* one order of a session; and for a paid session with owner metadata, if
\* from some point on gateway and datastore answer every call and the
\* caller retries after every internal error, some confirm returns success
\* with exactly one order of the session in the ledger.
C17_RetryEventuallyEffective ==
  /\ [](\A s \in SessionIds : Cardinality(OrdersOf(s)) <= 1)
  /\ \A s \in SessionIds :
       (<>[][~FaultStep]_vars /\ <>Verified(s)) => <>ConfirmedOnce(s)

\* ---------------------------------------------------------------- C18
\* C18: a confirm returns success (created or already processed) only if the
\* ledger then holds an order of that session.
C18_SuccessOnlyWithOrder ==
  \A r \in Req :
    (Done(r) /\ Res(r).code = 200) => OrdersOf(Sid(r)) # {}

\* ---------------------------------------------------------------- C19
\* C19: every order of the ledger has at least one line item and a positive
\* amount: confirm never writes an order from an empty cart.
C19_NoEmptyOrder ==
  \A o \in orders : Len(o.items) >= 1 /\ o.amount > 0

\* ---------------------------------------------------------------- C20
\* The rows the step takes out of the cart table.
RemovedLines == {cart[i] : i \in 1..Len(cart)} \ {cart'[i] : i \in 1..Len(cart')}

\* The step in which request r's cart delete is answered.
DeleteAnswered(r) == req[r].pc = "clear" /\ req'[r].pc = "done"

\* C20: whatever the cart CRUD does between confirm's cart read and its
\* cart delete, every row the delete removes is one of the rows that were
\* read and written into the order as an item.
C20_DeletesOnlySnapshotted ==
  [][\A r \in Req :
       DeleteAnswered(r) =>
         \A line \in RemovedLines :
           /\ \E i \in 1..Len(req[r].cartItems) : req[r].cartItems[i] = line
           /\ \E o \in orders :
                /\ o.id = req[r].orderData
                /\ \E i \in 1..Len(o.items) : o.items[i].product_id = line.product.id]_vars

\* ---------------------------------------------------------------- C21
\* The owner kind a cart row belongs to, and that owner's id.
KindOfLine(line) == IF line.user_id # NULL THEN "user" ELSE "session"
OwnerOfLine(line) == IF line.user_id # NULL THEN line.user_id ELSE line.session_id

\* Exactly one owner column of the row is set, and it holds ownerId.
OneOwnerField(o, ownerId) ==
  \/ (o.user_id = ownerId /\ o.session_id = NULL)
  \/ (o.user_id = NULL /\ o.session_id = ownerId)

\* The cart rows request r holds were read for the owner kind and id of the
\* metadata of its session.
ReadsCartOfMetadataOwner(r) ==
  LET m == sessions[Sid(r)].metadata IN
  \A i \in 1..Len(req[r].cartItems) :
    /\ KindOfLine(req[r].cartItems[i]) = m.ownerType
    /\ OwnerOfLine(req[r].cartItems[i]) = m.ownerId

\* C21: for every owner kind that create-checkout-session accepts into the
\* metadata, every order of the ledger has exactly one of its two owner
\* columns set, to the ownerId of its session's metadata, and the cart rows
\* a confirm reads (and then deletes) are rows of that owner kind and id.
C21_OneOwnerFieldPerOrder ==
  /\ \A o \in orders :
       /\ Truthy(sessions[o.stripe_session_id].metadata.ownerId)
       /\ OneOwnerField(o, sessions[o.stripe_session_id].metadata.ownerId)
  /\ \A r \in Req : req[r].pc \in {"insert", "clear"} => ReadsCartOfMetadataOwner(r)

====
